---------------------------- MODULE Spec2Model ----------------------------
(***************************************************************************)
(* A model of voice-equalizer: the filter-chain designer (design_eq), the  *)
(* block-streaming engine (AudioProcessor), the observation buffers        *)
(* (WaveSpectrogramViewer) and the tuner session (run_tuner).              *)
(*                                                                         *)
(* Numbers.  The program computes in IEEE double precision.  The model     *)
(* computes in signed fixed point with 24 fractional bits (1.0 is ONE),    *)
(* rounding every product and quotient to the nearest unit; all values of  *)
(* the program stay below 64.0 in magnitude, so every intermediate result  *)
(* fits TLC's 32-bit integers.  The transcendental library functions       *)
(* (sin, cos, 10**x, and scipy's butter / iirnotch designs) are tabulated  *)
(* at the arguments the model uses, rounded to the same 24 bits.           *)
(***************************************************************************)
EXTENDS Integers, Sequences, FiniteSets, TLC

VARIABLES
    \* ---- design_eq called as a function ----
    d_fs,        \* the sample rate of the last call
    d_bands,     \* the extra bands of the last call
    d_out,       \* what the last call did: returned a chain, or raised
    \* ---- AudioProcessor ----
    samplerate,  \* self.samplerate
    sos_chain,   \* self.sos_chain
    zi,          \* self.zi: per stage, per section, the two delay values
    monitor,     \* whether self.monitor is a viewer (TRUE) or None (FALSE)
    q,           \* the number of items in self.q
    stream,      \* the device stream: "closed" before sd.Stream is entered,
                 \* "active", "aborted" once an exception has left the
                 \* callback or the device has dropped, "released" once
                 \* the with block has been left
    run_pc,      \* where run() is: "idle" (not called), "enter" (before the
                 \* with), "loop", "stopped" (KeyboardInterrupt handled),
                 \* "error" (Exception handled), "killed" (its daemon
                 \* thread abandoned when the interpreter exits)
    main_pc,     \* where main() is: "idle", "start", "run" (inside
                 \* proc.run()), "show" (inside viewer.show()), "exited"
    calls,       \* the number of callback invocations so far
    cb,          \* the last callback invocation: its input, the state it
                 \* started from, what it wrote to outdata, how it ended
    \* ---- WaveSpectrogramViewer ----
    sr,          \* self.sr
    nbuf,        \* self.nbuf
    pre_buf,     \* self.pre_buf, oldest block first
    post_buf,    \* self.post_buf, oldest block first
    pushed,      \* history: the <<pre, post>> of every completed add_data
    snaps,       \* history: what each _animate read under the lock
    lock,        \* self._lock: "free", or the thread that holds it,
                 \* "producer" (add_data) or "consumer" (_animate)
    p_pc,        \* where add_data is: "idle", "wait" (at the with), "pre"
                 \* (holding the lock, before the first append), "post"
                 \* (between the two appends)
    p_item,      \* the <<pre, post>> of the add_data under way
    c_pc,        \* where _animate is: "idle", "wait", "pre" (holding the
                 \* lock, before the first copy), "post" (between the two
                 \* copies), "render" (past the with)
    c_pre,       \* _animate's list(self.pre_buf)
    \* ---- run_tuner ----
    t_pc,        \* where run_tuner is: "name_prompt", "record", "gain_prompt",
                 \* "q_prompt", "returned", "exited", or "idle" (not running)
    t_fs,        \* its samplerate argument
    bands,       \* its list of bands
    t_name,      \* name, stripped
    t_sample,    \* sample: the last recording
    t_freq,      \* freq: <<>> for None, else <<the frequency>>
    t_gain,      \* gain_db
    gain_str,    \* gain_str: the answer to the gain prompt, stripped
    q_str,       \* q_str: the answer to the Q prompt, stripped
    accepted,    \* history: the bands appended, in the order of appending
    saved,       \* history: the band list of every save_preset call
    exit_code    \* <<>>, or <<the argument of sys.exit>>

designVars == <<d_fs, d_bands, d_out>>
engineVars == <<samplerate, sos_chain, zi, monitor, q, stream, run_pc,
                main_pc, calls, cb>>
lockVars == <<lock, p_pc, p_item, c_pc, c_pre>>
viewerVars == <<sr, nbuf, pre_buf, post_buf, pushed, snaps, lockVars>>
tunerVars == <<t_pc, t_fs, bands, t_name, t_sample, t_freq, t_gain,
               gain_str, q_str, accepted, saved, exit_code>>

vars == <<d_fs, d_bands, d_out,
          samplerate, sos_chain, zi, monitor, q, stream, run_pc, main_pc,
          calls, cb,
          sr, nbuf, pre_buf, post_buf, pushed, snaps,
          lock, p_pc, p_item, c_pc, c_pre,
          t_pc, t_fs, bands, t_name, t_sample, t_freq, t_gain,
          gain_str, q_str, accepted, saved, exit_code>>

---------------------------------------------------------------------------
(* Fixed-point arithmetic                                                  *)

ONE == 2^24          \* the fixed-point image of 1.0
LIMB == 2^12         \* half a fixed-point word
HALF_LIMB == 2^23    \* one half unit in the last place of a product

\* IEEE not-a-number, as a value outside the range of the fixed-point numbers.
NaN == -(2^30)

Abs(x) == IF x < 0 THEN -x ELSE x

Sign(a, b) == IF (a < 0) = (b < 0) THEN 1 ELSE -1

\* |c| * |x| / ONE rounded to nearest, by 12-bit limbs so that no partial
\* product leaves 32 bits.
FxMulAbs(c, x) ==
    LET ch == c \div LIMB
        cl == c % LIMB
        xh == x \div LIMB
        xl == x % LIMB
        lo == cl * xl + HALF_LIMB
        mid == ch * xl + cl * xh + (lo \div LIMB)
    IN  ch * xh + (mid \div LIMB)

\* The product of two doubles.
FxMul(c, x) == Sign(c, x) * FxMulAbs(Abs(c), Abs(x))

\* Long division: n more quotient digits, base 16.
RECURSIVE FxDivDigits(_, _, _, _)
FxDivDigits(quo, rem, b, n) ==
    IF n = 0
    THEN IF 2 * rem >= b THEN quo + 1 ELSE quo
    ELSE FxDivDigits(quo * 16 + ((rem * 16) \div b), (rem * 16) % b, b, n - 1)

\* The quotient of two doubles, b # 0.
FxDiv(a, b) ==
    Sign(a, b) * FxDivDigits(Abs(a) \div Abs(b), Abs(a) % Abs(b), Abs(b), 6)

---------------------------------------------------------------------------
(* Library functions, tabulated                                            *)

\* scipy.signal.butter(N, Wn, btype, fs=fs, output="sos") raises ValueError
\* unless 0 < 2*Wn/fs < 1.
butter_raises(Wn, fs) == fs <= 0 \/ 2 * Wn >= fs

\* scipy.signal.butter(N, Wn, btype, fs=fs, output="sos"): one row
\* <<b0, b1, b2, a0, a1, a2>> per second-order section.
butter(N, Wn, btype, fs) ==
    CASE N = 2 /\ Wn = 80 /\ btype = "high" /\ fs = 44100 ->
        <<<<16642541, -33285082, 16642541, 16777216, -33284001, 16508947>>>>
      [] N = 2 /\ Wn = 80 /\ btype = "high" /\ fs = 48000 ->
        <<<<16653443, -33306886, 16653443, 16777216, -33305972, 16530583>>>>
      [] N = 2 /\ Wn = 120 /\ btype = "low" /\ fs = 44100 ->
        <<<<1211, 2423, 1211, 16777216, -33148796, 16376425>>>>
      [] N = 2 /\ Wn = 120 /\ btype = "low" /\ fs = 48000 ->
        <<<<1024, 2047, 1024, 16777216, -33181751, 16408629>>>>
      [] N = 4 /\ Wn = 9000 /\ btype = "low" /\ fs = 44100 ->
        <<<<833007, 1666014, 833007, 16777216, -5062944, 1016996>>,
          <<16777216, 33554432, 16777216, 16777216, -6984708, 7771221>>>>
      [] N = 4 /\ Wn = 9000 /\ btype = "low" /\ fs = 48000 ->
        <<<<637082, 1274164, 637082, 16777216, -6927626, 1325544>>,
          <<16777216, 33554432, 16777216, 16777216, -9486678, 8012668>>>>

\* scipy.signal.iirnotch(w0, Q, fs=fs), as the one-row array the code builds
\* from its (b, a).
iirnotch(w0, Q, fs) ==
    CASE w0 = 60 /\ Q = 30 /\ fs = 44100 ->
        <<<<16774826, -33548426, 16774826, 16777216, -33548426, 16772436>>>>
      [] w0 = 60 /\ Q = 30 /\ fs = 48000 ->
        <<<<16775020, -33549006, 16775020, 16777216, -33549006, 16772824>>>>

\* np.sin(2 * np.pi * f0 / fs)
np_sin(f0, fs) ==
    CASE f0 = 0 /\ fs = 44100 -> 0
      [] f0 = 0 /\ fs = 48000 -> 0
      [] f0 = 1000 /\ fs = 44100 -> 2382269
      [] f0 = 1000 /\ fs = 48000 -> 2189866
      [] f0 = 2000 /\ fs = 44100 -> 4716262
      [] f0 = 2000 /\ fs = 48000 -> 4342263
      [] f0 = 3000 /\ fs = 44100 -> 6954679
      [] f0 = 3000 /\ fs = 48000 -> 6420363
      [] f0 = 30000 /\ fs = 44100 -> -15192670
      [] f0 = 30000 /\ fs = 48000 -> -11863283

\* np.cos(2 * np.pi * f0 / fs)
np_cos(f0, fs) ==
    CASE f0 = 0 /\ fs = 44100 -> 16777216
      [] f0 = 0 /\ fs = 48000 -> 16777216
      [] f0 = 1000 /\ fs = 44100 -> 16607220
      [] f0 = 1000 /\ fs = 48000 -> 16633685
      [] f0 = 2000 /\ fs = 44100 -> 16100679
      [] f0 = 2000 /\ fs = 48000 -> 16205546
      [] f0 = 3000 /\ fs = 44100 -> 15267856
      [] f0 = 3000 /\ fs = 48000 -> 15500126
      [] f0 = 30000 /\ fs = 44100 -> -7117426
      [] f0 = 30000 /\ fs = 48000 -> -11863283

\* 10 ** (gain_db / 40)
pow10_40(gain_db) ==
    CASE gain_db = 3 -> 19939759
      [] gain_db = 6 -> 23698447

---------------------------------------------------------------------------
(* Filter design                                                           *)

\* The peaking-EQ biquad from A = 10**(gain_db/40), sin(w0), cos(w0) and Q.
\* With Q = 0 the code divides by zero: alpha is infinite, b0, b2, a0 and
\* a2 are infinite, and the normalised row is [nan, 0, nan, 1, 0, nan]
\* (numpy warns and does not raise).  sin(w0) is nonzero wherever the model
\* calls this with Q = 0.
peaking_row(A, sinw0, cosw0, Q) ==
    IF Q = 0
    THEN <<NaN, 0, NaN, ONE, 0, NaN>>
    ELSE LET alpha == FxDiv(sinw0, 2 * Q * ONE)
             b0 == ONE + FxMul(alpha, A)
             b1 == -(2 * cosw0)
             b2 == ONE - FxMul(alpha, A)
             a0 == ONE + FxDiv(alpha, A)
             a1 == -(2 * cosw0)
             a2 == ONE - FxDiv(alpha, A)
         IN  <<FxDiv(b0, a0), FxDiv(b1, a0), FxDiv(b2, a0),
               ONE, FxDiv(a1, a0), FxDiv(a2, a0)>>

\* _peaking_sos(f0, gain_db, Q, fs): a one-row SOS array.  No argument is
\* validated.
peaking_sos(f0, gain_db, Q, fs) ==
    <<peaking_row(pow10_40(gain_db), np_sin(f0, fs), np_cos(f0, fs), Q)>>

\* band.get(key, default) on a preset band.
band_get(band, key, default) ==
    IF key \in DOMAIN band THEN band[key] ELSE default

\* The tail of design_eq: one peaking filter per extra band, in list order.
extra_sections(extra_bands, fs) ==
    [i \in 1..Len(extra_bands) |->
        peaking_sos(extra_bands[i]["freq"],
                    band_get(extra_bands[i], "gain_db", 6),
                    band_get(extra_bands[i], "Q", 4),
                    fs)]

Returned(chain) == [status |-> "returned", chain |-> chain]
Raised(error) == [status |-> "raised", chain |-> <<>>, error |-> error]

\* design_eq with the notch and the bass low-pass appended in the other
\* order.
design_eq_bass_first(fs, extra_bands) ==
    IF butter_raises(80, fs) \/ butter_raises(120, fs) \/ butter_raises(9000, fs)
    THEN Raised("ValueError")
    ELSE Returned(
            << butter(2, 80, "high", fs),
               butter(2, 120, "low", fs),
               iirnotch(60, 30, fs),
               peaking_sos(3000, 3, 1, fs),
               butter(4, 9000, "low", fs) >>
            \o extra_sections(extra_bands, fs))

\* design_eq(fs, extra_bands): the chain, one entry per stage, or the
\* ValueError of the first butter call whose cutoff is not below fs/2.
design_eq(fs, extra_bands) ==
    IF butter_raises(80, fs) \/ butter_raises(120, fs) \/ butter_raises(9000, fs)
    THEN Raised("ValueError")
    ELSE Returned(
            << butter(2, 80, "high", fs),
               iirnotch(60, 30, fs),
               butter(2, 120, "low", fs),
               peaking_sos(3000, 3, 1, fs),
               butter(4, 9000, "low", fs) >>
            \o extra_sections(extra_bands, fs))

\* AudioProcessor.bass_idx, 0-indexed as in the code.
bass_idx == 2

---------------------------------------------------------------------------
(* Inputs of the design specification                                      *)

MaxBands == 2

\* 0 and 8000 are not valid: 8000 puts the 9 kHz low-pass above Nyquist.
SampleRates == {0, 8000, 44100, 48000}

BandChoices ==
    { [freq |-> 1000, gain_db |-> 6, Q |-> 2],
      [freq |-> 2000],
      [freq |-> 30000, gain_db |-> 6, Q |-> 4],
      [freq |-> 0, gain_db |-> 6, Q |-> 4],
      [freq |-> 1000, gain_db |-> 6, Q |-> 0],
      [freq |-> 1000, gain_db |-> 6, Q |-> -2] }

BandLists == UNION { [1..n -> BandChoices] : n \in 0..MaxBands }

---------------------------------------------------------------------------
(* Specification: design_eq as a function of its arguments                 *)

\* The parts of the program a specification does not run.
NoDesign ==
    /\ d_fs = 0
    /\ d_bands = <<>>
    /\ d_out = [status |-> "idle", chain |-> <<>>]

NoEngine ==
    /\ samplerate = 0
    /\ sos_chain = <<>>
    /\ zi = <<>>
    /\ monitor = FALSE
    /\ q = 0
    /\ stream = "closed"
    /\ run_pc = "idle"
    /\ main_pc = "idle"
    /\ calls = 0
    /\ cb = [ended |-> "never"]

\* No add_data and no _animate under way.
LockIdle ==
    /\ lock = "free"
    /\ p_pc = "idle"
    /\ p_item = <<>>
    /\ c_pc = "idle"
    /\ c_pre = <<>>

NoViewer ==
    /\ sr = 0
    /\ nbuf = 0
    /\ pre_buf = <<>>
    /\ post_buf = <<>>
    /\ pushed = <<>>
    /\ snaps = <<>>
    /\ LockIdle

NoTuner ==
    /\ t_pc = "idle"
    /\ t_fs = 0
    /\ bands = <<>>
    /\ t_name = <<>>
    /\ t_sample = <<>>
    /\ t_freq = <<>>
    /\ t_gain = 0
    /\ gain_str = <<>>
    /\ q_str = <<>>
    /\ accepted = <<>>
    /\ saved = <<>>
    /\ exit_code = <<>>

InitDesign ==
    /\ NoDesign
    /\ NoEngine
    /\ NoViewer
    /\ NoTuner

\* design_eq is called once, by the constructor of the engine.
DesignCall(fs, extra_bands) ==
    /\ d_out.status = "idle"
    /\ d_fs' = fs
    /\ d_bands' = extra_bands
    /\ d_out' = design_eq(fs, extra_bands)
    /\ UNCHANGED <<engineVars, viewerVars, tunerVars>>

NextDesign ==
    \E fs \in SampleRates, extra_bands \in BandLists : DesignCall(fs, extra_bands)

SpecDesign == InitDesign /\ [][NextDesign]_vars

---------------------------------------------------------------------------
(* Filtering (scipy.signal.sosfilt, sosfilt_zi)                            *)

\* One sample through one second-order section, transposed direct form II:
\* the inner loop of scipy's sosfilt.  row is <<b0, b1, b2, a0, a1, a2>>
\* with a0 = 1, z the section's two delay values.
biquad(row, z, v) ==
    LET y == FxMul(row[1], v) + z[1]
    IN  [y |-> y,
         z |-> << FxMul(row[2], v) - FxMul(row[5], y) + z[2],
                  FxMul(row[3], v) - FxMul(row[6], y) >>]

\* One sample through sections k.. of an SOS array, in order.
RECURSIVE sos_sample(_, _, _, _)
sos_sample(sos, zs, v, k) ==
    IF k > Len(sos)
    THEN [y |-> v, zs |-> zs]
    ELSE LET r == biquad(sos[k], zs[k], v)
         IN  sos_sample(sos, [zs EXCEPT ![k] = r.z], r.y, k + 1)

RECURSIVE sosfilt_from(_, _, _, _, _)
sosfilt_from(sos, x, zs, n, acc) ==
    IF n > Len(x)
    THEN [y |-> acc, zf |-> zs]
    ELSE LET r == sos_sample(sos, zs, x[n], 1)
         IN  sosfilt_from(sos, x, r.zs, n + 1, Append(acc, r.y))

\* sosfilt(sos, x, zi=zs): the filtered block y and the final delay values zf.
sosfilt(sos, x, zs) == sosfilt_from(sos, x, zs, 1, <<>>)

\* scipy.signal.lfilter_zi(b, a) for one section: the delay values of the
\* steady state of a unit step.
lfilter_zi(row) ==
    LET B1 == row[2] - FxMul(row[5], row[1])
        B2 == row[3] - FxMul(row[6], row[1])
        z1 == FxDiv(B1 + B2, ONE + row[5] + row[6])
    IN  << z1, FxMul(ONE + row[5], z1) - B1 >>

\* b.sum() / a.sum() of one section.
dc_gain(row) == FxDiv(row[1] + row[2] + row[3], row[4] + row[5] + row[6])

RECURSIVE sosfilt_zi_from(_, _, _, _)
sosfilt_zi_from(sos, k, scale, acc) ==
    IF k > Len(sos)
    THEN acc
    ELSE LET z == lfilter_zi(sos[k])
         IN  sosfilt_zi_from(sos, k + 1, FxMul(scale, dc_gain(sos[k])),
                             Append(acc, << FxMul(scale, z[1]), FxMul(scale, z[2]) >>))

\* scipy.signal.sosfilt_zi(sos): each section's unit-step steady state,
\* scaled by the gain of the sections before it.  The values are those of a
\* unit step; the code passes them to sosfilt unscaled.
sosfilt_zi(sos) == sosfilt_zi_from(sos, 1, ONE, <<>>)

---------------------------------------------------------------------------
(* AudioProcessor._process                                                 *)

\* 10 ** (-45 / 20), squared, in units of 2^-32: the gate opens when the
\* mean square of the block reaches it.
GATE_THRESHOLD_SQ == 135819

\* One sample's square in units of 2^-32, from the sample rounded to 2^-16
\* and clipped at 0.25 (whose square is far above any block's threshold).
sample_sq(v) ==
    LET r == (Abs(v) + 2^7) \div 2^8
        c == IF r > 2^14 THEN 2^14 ELSE r
    IN  c * c

\* The sum of the squares of x[n..], added to acc and clipped at cap.
RECURSIVE sum_sq(_, _, _, _)
sum_sq(x, n, acc, cap) ==
    IF n > Len(x)
    THEN acc
    ELSE LET t == acc + sample_sq(x[n])
         IN  sum_sq(x, n + 1, IF t > cap THEN cap ELSE t, cap)

\* rms < 10 ** (-45 / 20), with rms = sqrt(mean(x ** 2)): the same as
\* sum(x ** 2) < len(x) * threshold ** 2.
rms_below_gate(x) ==
    sum_sq(x, 1, 0, Len(x) * GATE_THRESHOLD_SQ) < Len(x) * GATE_THRESHOLD_SQ

\* x += low * 2.0 on the bass stage: the block passed on is the second
\* application's output plus twice the first's, the stage's state is the
\* one the second application left.
bass_mix(low, ser) ==
    [y |-> [n \in 1..Len(ser.y) |-> ser.y[n] + 2 * low.y[n]], zf |-> ser.zf]

\* A bass stage that is applied once, its output used for both terms.
bass_second_absent(sos, x, low) == bass_mix(low, low)

\* The second sosfilt of the bass stage: the same incoming x again, from the
\* state the first application (low) left.
bass_second(sos, x, low) == bass_mix(low, sosfilt(sos, x, low.zf))

\* The body of the loop of _process for stage i (0-indexed as in the code),
\* from the stage's state z: the block passed on and the stage's new state.
stage(sos, x, z, i) ==
    IF i = bass_idx
    THEN bass_second(sos, x, sosfilt(sos, x, z))
    ELSE sosfilt(sos, x, z)

\* The loop of _process over stages i .. stop-1.
RECURSIVE apply_stages(_, _, _, _, _)
RECURSIVE after_stage(_, _, _, _, _)
after_stage(chain, zs, r, i, stop) ==
    apply_stages(chain, [zs EXCEPT ![i + 1] = r.zf], r.y, i + 1, stop)

apply_stages(chain, zs, x, i, stop) ==
    IF i >= stop
    THEN [x |-> x, zi |-> zs]
    ELSE after_stage(chain, zs, stage(chain[i + 1], x, zs[i + 1], i), i, stop)

\* _process without the gate.
noise_gate_absent(f) == [out |-> f.x, zi |-> f.zi]

\* The noise gate at the end of _process, applied to the loop's result.
noise_gate(f) ==
    [out |-> IF rms_below_gate(f.x)
             THEN [n \in 1..Len(f.x) |-> 0]
             ELSE f.x,
     zi |-> f.zi]

\* _process(indata) from filter states zs: the returned block and the new
\* filter states.
process(chain, zs, indata) ==
    noise_gate(apply_stages(chain, zs, indata, 0, Len(chain)))

---------------------------------------------------------------------------
(* WaveSpectrogramViewer                                                   *)

\* The default buffer_seconds of WaveSpectrogramViewer.__init__.
BUFFER_SECONDS == 3

\* A bounded append that, when full, keeps what it has and drops the new
\* item.
deque_append_drop_newest(buf, item, maxlen) ==
    IF maxlen = 0
    THEN <<>>
    ELSE IF Len(buf) >= maxlen
    THEN buf
    ELSE Append(buf, item)

\* collections.deque(maxlen=maxlen).append(item): the deque counts items,
\* and drops from the left when full.
deque_append(buf, item, maxlen) ==
    IF maxlen = 0
    THEN <<>>
    ELSE IF Len(buf) >= maxlen
    THEN Append(Tail(buf), item)
    ELSE Append(buf, item)

\* add_data(pre, post) under the lock, as far as it gets: both appends, or,
\* when an exception cuts it short, none (fault_at = 0) or the first only
\* (fault_at = 1).  fault_at = 2 is the call that completes.
add_data(bufs, pre, post, maxlen, fault_at) ==
    [pre  |-> IF fault_at >= 1 THEN deque_append(bufs.pre, pre, maxlen)
                               ELSE bufs.pre,
     post |-> IF fault_at >= 2 THEN deque_append(bufs.post, post, maxlen)
                               ELSE bufs.post]

\* np.concatenate(list(buf)) if buf else np.array([])
RECURSIVE concatenate(_)
concatenate(buf) ==
    IF buf = <<>> THEN <<>> ELSE Head(buf) \o concatenate(Tail(buf))

---------------------------------------------------------------------------
(* Specification: the streaming engine                                     *)

FrameSize == 8
MaxBlocks == 2

EngineRates == {44100, 48000}

EnginePresets == { <<>>, <<[freq |-> 1000, gain_db |-> 6, Q |-> 2]>> }

\* The captured blocks: silence and a constant level of half scale.
Levels == {0, ONE \div 2}

Blocks == { [n \in 1..FrameSize |-> a] : a \in Levels }

\* How an invocation of the callback can go wrong: nothing, an exception
\* out of the filtering of stage `at` (the first or the last stage), or an
\* exception out of the monitor's add_data before its first or between its
\* two appends.
Faults(chain, mon) ==
    { [kind |-> "none", at |-> 0] }
    \cup { [kind |-> "process", at |-> i] : i \in {0, Len(chain) - 1} }
    \cup IF mon
         THEN { [kind |-> "monitor", at |-> i] : i \in 0..1 }
         ELSE {}

\* AudioProcessor.__init__ followed by run() opening the stream; with a
\* monitor, WaveSpectrogramViewer.__init__ for the same sample rate.
InitEngine ==
    /\ NoDesign
    /\ NoTuner
    /\ samplerate \in EngineRates
    /\ \E preset_bands \in EnginePresets :
          sos_chain = design_eq(samplerate, preset_bands).chain
    /\ zi = [i \in 1..Len(sos_chain) |-> sosfilt_zi(sos_chain[i])]
    /\ monitor \in BOOLEAN
    /\ q = 0
    /\ stream = "active"
    /\ run_pc = "loop"
    /\ main_pc = IF monitor THEN "show" ELSE "run"
    /\ calls = 0
    /\ cb = [ended |-> "never"]
    /\ sr = IF monitor THEN samplerate ELSE 0
    /\ nbuf = IF monitor THEN BUFFER_SECONDS * samplerate ELSE 0
    /\ pre_buf = <<>>
    /\ post_buf = <<>>
    /\ pushed = <<>>
    /\ snaps = <<>>
    /\ LockIdle

\* A callback without the try/except around the monitor's add_data: its
\* exception leaves the callback before outdata is written.
after_push_uncaught(fault_kind) ==
    IF fault_kind = "monitor"
    THEN [ended |-> "raised", filled |-> FALSE]
    ELSE [ended |-> "returned", filled |-> TRUE]

\* How _callback goes on once _process has returned: add_data is called
\* inside try / except Exception: pass, so whatever it does the next
\* statement, outdata[:] = processed.reshape(-1, 1), runs and the callback
\* returns.
after_push(fault_kind) == [ended |-> "returned", filled |-> TRUE]

\* _callback(indata, outdata, ...) for one captured block.
Callback(indata, fault) ==
    /\ stream = "active"
    /\ calls < MaxBlocks
    /\ calls' = calls + 1
    /\ UNCHANGED <<designVars, tunerVars, samplerate, sos_chain, monitor,
                   run_pc, main_pc, sr, nbuf, snaps, lockVars>>
    /\ IF fault.kind = "process"
       THEN \* the exception leaves _process and the callback: nothing after
            \* the call of _process runs, and the library aborts the stream
            /\ zi' = apply_stages(sos_chain, zi, indata, 0, fault.at).zi
            /\ cb' = [ended |-> "raised", fault |-> fault.kind,
                      indata |-> indata, zi0 |-> zi,
                      filled |-> FALSE, outdata |-> <<>>]
            /\ stream' = "aborted"
            /\ UNCHANGED <<q, pre_buf, post_buf, pushed>>
       ELSE \E r \in {process(sos_chain, zi, indata)} :
            \* the monitor's exception, if any, is swallowed
            \E m \in {IF monitor
                      THEN add_data([pre |-> pre_buf, post |-> post_buf],
                                    indata, r.out, nbuf,
                                    IF fault.kind = "monitor"
                                    THEN fault.at ELSE 2)
                      ELSE [pre |-> pre_buf, post |-> post_buf]} :
            \E e \in {after_push(fault.kind)} :
                /\ zi' = r.zi
                /\ cb' = [ended |-> e.ended, fault |-> fault.kind,
                          indata |-> indata, zi0 |-> zi,
                          filled |-> e.filled,
                          outdata |-> IF e.filled THEN r.out ELSE <<>>]
                /\ pre_buf' = m.pre
                /\ post_buf' = m.post
                /\ pushed' = IF monitor /\ fault.kind = "none"
                              THEN Append(pushed, <<indata, r.out>>)
                              ELSE pushed
                /\ q' = IF e.ended = "returned" THEN q + 1 ELSE q
                /\ stream' = IF e.ended = "returned" THEN stream ELSE "aborted"

\* One iteration of run()'s loop: self.q.get().
RunGet ==
    /\ run_pc = "loop"
    /\ q > 0
    /\ q' = q - 1
    /\ UNCHANGED <<designVars, tunerVars, samplerate, sos_chain, zi, monitor,
                   stream, run_pc, main_pc, calls, cb, viewerVars>>

NextEngine ==
    \/ \E indata \in Blocks, fault \in Faults(sos_chain, monitor) :
          Callback(indata, fault)
    \/ RunGet

SpecEngine == InitEngine /\ [][NextEngine]_vars

\* An engine that has been running on silence until the start-up transient
\* of its filters has died out: every delay value is zero.
InitSettled ==
    /\ NoDesign
    /\ NoTuner
    /\ samplerate \in EngineRates
    /\ \E preset_bands \in EnginePresets :
          sos_chain = design_eq(samplerate, preset_bands).chain
    /\ zi = [i \in 1..Len(sos_chain) |->
                [k \in 1..Len(sos_chain[i]) |-> <<0, 0>>]]
    /\ monitor \in BOOLEAN
    /\ q = 0
    /\ stream = "active"
    /\ run_pc = "loop"
    /\ main_pc = IF monitor THEN "show" ELSE "run"
    /\ calls = 0
    /\ cb = [ended |-> "never"]
    /\ sr = IF monitor THEN samplerate ELSE 0
    /\ nbuf = IF monitor THEN BUFFER_SECONDS * samplerate ELSE 0
    /\ pre_buf = <<>>
    /\ post_buf = <<>>
    /\ pushed = <<>>
    /\ snaps = <<>>
    /\ LockIdle

\* Captured blocks at a quiet and at a loud constant level.
RunningLevels == {ONE \div 16, ONE \div 2}

RunningBlocks == { [n \in 1..FrameSize |-> a] : a \in RunningLevels }

\* Callbacks in which nothing raises.
NextRunning ==
    \/ \E indata \in RunningBlocks :
          Callback(indata, [kind |-> "none", at |-> 0])
    \/ RunGet

\* The engine from either state: just constructed, or settled on silence.
SpecRunning == (InitEngine \/ InitSettled) /\ [][NextRunning]_vars

---------------------------------------------------------------------------
(* Specification: main() and the life of run()                             *)

\* main() with the engine constructed and, with --gui, the viewer too.
InitMain ==
    /\ NoDesign
    /\ NoTuner
    /\ samplerate \in EngineRates
    /\ \E preset_bands \in EnginePresets :
          sos_chain = design_eq(samplerate, preset_bands).chain
    /\ zi = [i \in 1..Len(sos_chain) |-> sosfilt_zi(sos_chain[i])]
    /\ monitor \in BOOLEAN
    /\ q = 0
    /\ stream = "closed"
    /\ run_pc = "idle"
    /\ main_pc = "start"
    /\ calls = 0
    /\ cb = [ended |-> "never"]
    /\ sr = IF monitor THEN samplerate ELSE 0
    /\ nbuf = IF monitor THEN BUFFER_SECONDS * samplerate ELSE 0
    /\ pre_buf = <<>>
    /\ post_buf = <<>>
    /\ pushed = <<>>
    /\ snaps = <<>>
    /\ LockIdle

\* Everything of the engine and the viewer that the steps of main() and of
\* run() around the loop leave alone.
lifeFrame == <<designVars, tunerVars, viewerVars, samplerate, sos_chain, zi,
               monitor, q, calls, cb>>

\* main(): with a viewer, run() is started in a daemon thread and main
\* enters viewer.show(); without one, main calls run() itself.
MainStart ==
    /\ main_pc = "start"
    /\ main_pc' = IF monitor THEN "show" ELSE "run"
    /\ run_pc' = "enter"
    /\ UNCHANGED <<lifeFrame, stream>>

\* run(): sd.Stream(...) opens and starts the stream, the loop begins.
StreamOpen ==
    /\ run_pc = "enter"
    /\ stream' = "active"
    /\ run_pc' = "loop"
    /\ UNCHANGED <<lifeFrame, main_pc>>

\* run(): sd.Stream(...) raises (device unavailable); except Exception
\* prints the error and run returns.
StreamOpenFails ==
    /\ run_pc = "enter"
    /\ run_pc' = "error"
    /\ UNCHANGED <<lifeFrame, main_pc, stream>>

\* The device drops while streaming: the library stops invoking the
\* callback.  Nothing in run() is told.
StreamDrop ==
    /\ run_pc = "loop"
    /\ stream = "active"
    /\ stream' = "aborted"
    /\ UNCHANGED <<lifeFrame, main_pc, run_pc>>

\* Ctrl-C while main is inside run(): KeyboardInterrupt is raised in the
\* main thread, at self.q.get(); the with block is left, which closes the
\* stream, and except KeyboardInterrupt prints "stopped".
Interrupt ==
    /\ main_pc = "run"
    /\ run_pc = "loop"
    /\ stream' = "released"
    /\ run_pc' = "stopped"
    /\ UNCHANGED <<lifeFrame, main_pc>>

\* run() has returned to main(), which returns.
MainReturn ==
    /\ main_pc = "run"
    /\ run_pc \in {"stopped", "error"}
    /\ main_pc' = "exited"
    /\ UNCHANGED <<lifeFrame, run_pc, stream>>

\* With the GUI: the window is closed, or Ctrl-C raises KeyboardInterrupt in
\* the main thread inside viewer.show().  main() leaves through its finally
\* and the interpreter exits; the daemon thread running run() gets no
\* exception and is abandoned where it is.
MainLeavesShow ==
    /\ main_pc = "show"
    /\ main_pc' = "exited"
    /\ run_pc' = IF run_pc \in {"enter", "loop"} THEN "killed" ELSE run_pc
    /\ UNCHANGED <<lifeFrame, stream>>

NextMain ==
    \/ MainStart
    \/ StreamOpen
    \/ StreamOpenFails
    \/ StreamDrop
    \/ Interrupt
    \/ MainReturn
    \/ MainLeavesShow
    \/ \E indata \in Blocks :
          main_pc # "exited" /\ Callback(indata, [kind |-> "none", at |-> 0])
    \/ RunGet

SpecMain == InitMain /\ [][NextMain]_vars

---------------------------------------------------------------------------
(* Specification: the observation buffers                                  *)

MaxPushes == 4
MaxSnaps == 2

\* The sample rates a viewer is built for here, small enough for the
\* buffers to fill.
ViewerRates == {1, 2}

\* The <<pre, post>> pairs handed to add_data: blocks of one and of two
\* samples, each with samples of its own.
ViewerPushes ==
    { << <<1>>, <<-1>> >>,
      << <<2, 3>>, <<-2, -3>> >>,
      << <<4, 5>>, <<0, 0>> >> }

\* WaveSpectrogramViewer.__init__(samplerate) with the default
\* buffer_seconds.
InitViewer ==
    /\ NoDesign
    /\ NoEngine
    /\ NoTuner
    /\ sr \in ViewerRates
    /\ nbuf = BUFFER_SECONDS * sr
    /\ pre_buf = <<>>
    /\ post_buf = <<>>
    /\ pushed = <<>>
    /\ snaps = <<>>
    /\ LockIdle

\* add_data(pre, post), called from the audio thread; the lock makes it one
\* step.
AddData(pre, post) ==
    /\ Len(pushed) < MaxPushes
    /\ LET m == add_data([pre |-> pre_buf, post |-> post_buf],
                         pre, post, nbuf, 2)
       IN  /\ pre_buf' = m.pre
           /\ post_buf' = m.post
    /\ pushed' = Append(pushed, <<pre, post>>)
    /\ UNCHANGED <<designVars, engineVars, tunerVars, sr, nbuf, snaps,
                   lockVars>>

\* A snapshot that pops what it reads.
AnimateConsuming ==
    /\ Len(snaps) < MaxSnaps
    /\ snaps' = Append(snaps, [pre |-> concatenate(pre_buf),
                               post |-> concatenate(post_buf),
                               pre_blocks |-> pre_buf,
                               post_blocks |-> post_buf,
                               pushes |-> Len(pushed)])
    /\ pre_buf' = <<>>
    /\ post_buf' = <<>>
    /\ UNCHANGED <<designVars, engineVars, tunerVars, sr, nbuf, pushed,
                   lockVars>>

\* _animate: under the lock it copies both deques and concatenates each;
\* what follows the lock draws from the two copies into the figure and
\* touches neither deque.
Animate ==
    /\ Len(snaps) < MaxSnaps
    /\ snaps' = Append(snaps, [pre |-> concatenate(pre_buf),
                               post |-> concatenate(post_buf),
                               pre_blocks |-> pre_buf,
                               post_blocks |-> post_buf,
                               pushes |-> Len(pushed)])
    /\ UNCHANGED <<designVars, engineVars, tunerVars, sr, nbuf, pre_buf,
                   post_buf, pushed, lockVars>>

NextViewer ==
    \/ \E p \in ViewerPushes : AddData(p[1], p[2])
    \/ Animate

SpecViewer == InitViewer /\ [][NextViewer]_vars

---------------------------------------------------------------------------
(* Specification: the audio thread and the GUI thread at the lock          *)

\* Everything the steps of add_data and _animate leave alone.
lockFrame == <<designVars, engineVars, tunerVars, sr, nbuf>>

\* The audio thread calls add_data(pre, post) and reaches `with self._lock`.
PushStart(pre, post) ==
    /\ p_pc = "idle"
    /\ Len(pushed) < MaxPushes
    /\ p_pc' = "wait"
    /\ p_item' = <<pre, post>>
    /\ UNCHANGED <<lockFrame, pre_buf, post_buf, pushed, snaps, lock, c_pc,
                   c_pre>>

\* add_data acquires the lock.
PushAcquire ==
    /\ p_pc = "wait"
    /\ lock = "free"
    /\ lock' = "producer"
    /\ p_pc' = "pre"
    /\ UNCHANGED <<lockFrame, pre_buf, post_buf, pushed, snaps, p_item, c_pc,
                   c_pre>>

\* self.pre_buf.append(pre.copy())
PushPre ==
    /\ p_pc = "pre"
    /\ pre_buf' = deque_append(pre_buf, p_item[1], nbuf)
    /\ p_pc' = "post"
    /\ UNCHANGED <<lockFrame, post_buf, pushed, snaps, lock, p_item, c_pc,
                   c_pre>>

\* self.post_buf.append(post.copy()), and the with block is left.
PushPost ==
    /\ p_pc = "post"
    /\ post_buf' = deque_append(post_buf, p_item[2], nbuf)
    /\ pushed' = Append(pushed, p_item)
    /\ lock' = "free"
    /\ p_pc' = "idle"
    /\ UNCHANGED <<lockFrame, pre_buf, snaps, p_item, c_pc, c_pre>>

\* The animation timer fires: _animate reaches `with self._lock`.
SnapStart ==
    /\ c_pc = "idle"
    /\ Len(snaps) < MaxSnaps
    /\ c_pc' = "wait"
    /\ UNCHANGED <<lockFrame, pre_buf, post_buf, pushed, snaps, lock, p_pc,
                   p_item, c_pre>>

\* An _animate that enters its with block without looking at the lock.
SnapAcquireUnlocked ==
    /\ c_pc = "wait"
    /\ lock' = lock
    /\ c_pc' = "pre"
    /\ UNCHANGED <<lockFrame, pre_buf, post_buf, pushed, snaps, p_pc, p_item,
                   c_pre>>

\* _animate acquires the lock.
SnapAcquire ==
    /\ c_pc = "wait"
    /\ lock = "free"
    /\ lock' = "consumer"
    /\ c_pc' = "pre"
    /\ UNCHANGED <<lockFrame, pre_buf, post_buf, pushed, snaps, p_pc, p_item,
                   c_pre>>

\* pre = np.concatenate(list(self.pre_buf)) if self.pre_buf else ...
SnapPre ==
    /\ c_pc = "pre"
    /\ c_pre' = pre_buf
    /\ c_pc' = "post"
    /\ UNCHANGED <<lockFrame, pre_buf, post_buf, pushed, snaps, lock, p_pc,
                   p_item>>

\* An _animate that keeps the lock while it renders.
SnapPostKeepsLock ==
    /\ c_pc = "post"
    /\ snaps' = Append(snaps, [pre |-> concatenate(c_pre),
                               post |-> concatenate(post_buf),
                               pre_blocks |-> c_pre,
                               post_blocks |-> post_buf,
                               pushes |-> Len(pushed)])
    /\ c_pc' = "render"
    /\ UNCHANGED <<lockFrame, pre_buf, post_buf, pushed, lock, p_pc, p_item,
                   c_pre>>

\* post = np.concatenate(list(self.post_buf)) if self.post_buf else ...,
\* and the with block is left.
SnapPost ==
    /\ c_pc = "post"
    /\ snaps' = Append(snaps, [pre |-> concatenate(c_pre),
                               post |-> concatenate(post_buf),
                               pre_blocks |-> c_pre,
                               post_blocks |-> post_buf,
                               pushes |-> Len(pushed)])
    /\ lock' = "free"
    /\ c_pc' = "render"
    /\ UNCHANGED <<lockFrame, pre_buf, post_buf, pushed, p_pc, p_item, c_pre>>

\* The rest of _animate: the figure is drawn from the two local arrays.
Render ==
    /\ c_pc = "render"
    /\ c_pc' = "idle"
    /\ UNCHANGED <<lockFrame, pre_buf, post_buf, pushed, snaps, lock, p_pc,
                   p_item, c_pre>>

\* The pairs the audio thread pushes while the two threads interleave: one
\* of each block length.
LockPushes == { p \in ViewerPushes : p[1][1] \in {1, 2} }

NextLock ==
    \/ \E p \in LockPushes : PushStart(p[1], p[2])
    \/ PushAcquire
    \/ PushPre
    \/ PushPost
    \/ SnapStart
    \/ SnapAcquire
    \/ SnapPre
    \/ SnapPost
    \/ Render

\* A thread inside the with block goes on; a thread waiting for a lock that
\* is free again and again gets it.  Nothing makes the timer fire, the audio
\* thread push, or the rendering end.
SpecLock ==
    /\ InitViewer
    /\ [][NextLock]_vars
    /\ SF_vars(PushAcquire)
    /\ WF_vars(PushPre)
    /\ WF_vars(PushPost)
    /\ WF_vars(SnapPre)
    /\ WF_vars(SnapPost)

---------------------------------------------------------------------------
(* The tuner: text entry, recording, frequency detection                   *)

\* All text is a sequence of one-character strings.
DigitChars == {"0", "1", "2", "3", "4", "5", "6", "7", "8", "9"}

digit_value(c) ==
    CASE c = "0" -> 0 [] c = "1" -> 1 [] c = "2" -> 2 [] c = "3" -> 3
      [] c = "4" -> 4 [] c = "5" -> 5 [] c = "6" -> 6 [] c = "7" -> 7
      [] c = "8" -> 8 [] c = "9" -> 9

RECURSIVE lstrip(_)
lstrip(s) == IF s # <<>> /\ Head(s) = " " THEN lstrip(Tail(s)) ELSE s

RECURSIVE rstrip(_)
rstrip(s) ==
    IF s # <<>> /\ s[Len(s)] = " " THEN rstrip(SubSeq(s, 1, Len(s) - 1)) ELSE s

\* str.strip()
strip(s) == rstrip(lstrip(s))

\* The decimal number written by a string of digits.
RECURSIVE digits_value(_, _)
digits_value(s, acc) ==
    IF s = <<>> THEN acc ELSE digits_value(Tail(s), 10 * acc + digit_value(Head(s)))

\* The index of the first "." of s, or Len(s) + 1.
RECURSIVE find_dot(_, _)
find_dot(s, k) ==
    IF k > Len(s) \/ s[k] = "." THEN k ELSE find_dot(s, k + 1)

\* IEEE infinity, as a value above the range of the fixed-point numbers.
Inf == 2^30

\* float(s) for the decimal notation [sign] digits [. digits] with at least
\* one digit and for the words float reads as numbers, "nan" and "inf", in
\* lower case: <<the value>>, or <<>> for ValueError.  (float also reads
\* exponents, "infinity" and other cases of the letters, which the entries
\* of the model do not use.)
float_of(s) ==
    LET t == strip(s)
        signed == t # <<>> /\ Head(t) \in {"+", "-"}
        body == IF signed THEN Tail(t) ELSE t
        dot == find_dot(body, 1)
        whole == SubSeq(body, 1, dot - 1)
        frac == SubSeq(body, dot + 1, Len(body))
        ok == /\ \A k \in 1..Len(whole) : whole[k] \in DigitChars
              /\ \A k \in 1..Len(frac) : frac[k] \in DigitChars
              /\ Len(whole) + Len(frac) >= 1
        mag == digits_value(whole, 0) * ONE
                 + (digits_value(frac, 0) * ONE) \div (10 ^ Len(frac))
    IN  IF body = <<"n", "a", "n">> THEN << NaN >>
        ELSE IF body = <<"i", "n", "f">>
        THEN IF signed /\ Head(t) = "-" THEN << -Inf >> ELSE << Inf >>
        ELSE IF ~ok THEN <<>>
        ELSE IF signed /\ Head(t) = "-" THEN << -mag >> ELSE << mag >>

\* The two prompts of run_tuner: float(s) if s else default, and default on
\* ValueError.
entry_or_default(line, default) ==
    LET s == strip(line)
    IN  IF s = <<>> THEN default
        ELSE IF float_of(s) = <<>> THEN default
        ELSE float_of(s)[1]

\* np.hanning(4): 0.5 - 0.5 * cos(2 * pi * n / 3).
hanning(N) == CASE N = 4 -> << 0, (3 * ONE) \div 4, (3 * ONE) \div 4, 0 >>

\* np.abs(np.fft.rfft(xw)) ** 2 for four samples: the squared magnitudes of
\* bins 0, 1, 2.  The twiddle factors of a 4-point transform are 1, -i, -1, i.
rfft_mag_sq(xw) ==
    << (xw[1] + xw[2] + xw[3] + xw[4]) * (xw[1] + xw[2] + xw[3] + xw[4]),
       (xw[1] - xw[3]) * (xw[1] - xw[3]) + (xw[4] - xw[2]) * (xw[4] - xw[2]),
       (xw[1] - xw[2] + xw[3] - xw[4]) * (xw[1] - xw[2] + xw[3] - xw[4]) >>

\* np.argmax: the first index of the greatest entry (1-indexed here).
argmax(m) ==
    CHOOSE k \in 1..Len(m) :
        /\ \A j \in 1..Len(m) : m[j] <= m[k]
        /\ \A j \in 1..(k - 1) : m[j] < m[k]

\* The floor 1e-4 of _dominant_freq, squared, in squared fixed-point units:
\* the least squared magnitude that is not below the floor.
DETECT_FLOOR_SQ == 2814750

\* _dominant_freq(x, fs): <<>> for None, else <<the frequency of the
\* strongest bin>>, np.fft.rfftfreq(len(x), 1 / fs)[idx].
dominant_freq(x, fs) ==
    LET w == hanning(Len(x))
        xw == [n \in 1..Len(x) |-> FxMul(x[n], w[n])]
        mag == rfft_mag_sq(xw)
        idx == argmax(mag)
    IN  IF mag[idx] < DETECT_FLOOR_SQ
        THEN <<>>
        ELSE << ((idx - 1) * fs * ONE) \div Len(x) >>

\* DEFAULT_DURATION, in seconds.
DEFAULT_DURATION == 2

\* Where run_tuner goes after detection: back to the name prompt on None
\* (the `continue`), else on to the gain prompt.  This variant ends the
\* session on None.
after_detect_failing(f) == IF f = <<>> THEN "exited" ELSE "gain_prompt"

after_detect(f) == IF f = <<>> THEN "name_prompt" ELSE "gain_prompt"

\* The end of run_tuner, after the loop: sys.exit(1) without a band, else
\* save_preset(preset_path, bands).  This variant saves without looking.
tuner_finish_always_saves(bs, sv) ==
    [pc |-> "returned", saved |-> Append(sv, bs), exit_code |-> <<>>]

tuner_finish(bs, sv) ==
    IF bs = <<>>
    THEN [pc |-> "exited", saved |-> sv, exit_code |-> <<1>>]
    ELSE [pc |-> "returned", saved |-> Append(sv, bs), exit_code |-> <<>>]

---------------------------------------------------------------------------
(* Specification: the tuner session                                        *)

MaxTunerBands == 2

\* With a sample rate of 2 the recording of DEFAULT_DURATION seconds has
\* four samples, and the transform is exact.
TunerRates == {2}

\* What the user types at the name prompt.
NameLines == { <<>>, <<" ">>, <<" ", "h", "i", "s", "s">> }

\* What the user types at the gain and Q prompts.
EntryLines ==
    { <<>>, <<"a", "b", "c">>, <<"0">>, <<" ", "-", "2", ".", "5", " ">>,
      <<"n", "a", "n">>, <<"3">> }

\* Recordings: silence, a level below the detection floor, a constant loud
\* level, a loud level alternating in sign.
Recordings ==
    { <<0, 0, 0, 0>>,
      <<2^10, 2^10, 2^10, 2^10>>,
      <<2^14, 2^14, 2^14, 2^14>>,
      <<2^14, -(2^14), 2^14, -(2^14)>> }

\* run_tuner up to its first prompt.
InitTuner ==
    /\ NoDesign
    /\ NoEngine
    /\ NoViewer
    /\ t_pc = "name_prompt"
    /\ t_fs \in TunerRates
    /\ bands = <<>>
    /\ t_name = <<>>
    /\ t_sample = <<>>
    /\ t_freq = <<>>
    /\ t_gain = 0
    /\ gain_str = <<>>
    /\ q_str = <<>>
    /\ accepted = <<>>
    /\ saved = <<>>
    /\ exit_code = <<>>

\* The name prompt is answered: an empty name ends the loop and the
\* session, another name goes on to the recording.
EnterName(line) ==
    /\ t_pc = "name_prompt"
    /\ IF strip(line) = <<>>
       THEN LET f == tuner_finish(bands, saved)
            IN  /\ t_pc' = f.pc
                /\ saved' = f.saved
                /\ exit_code' = f.exit_code
                /\ UNCHANGED t_name
       ELSE /\ Len(bands) < MaxTunerBands
            /\ t_name' = strip(line)
            /\ t_pc' = "record"
            /\ UNCHANGED <<saved, exit_code>>
    /\ UNCHANGED <<designVars, engineVars, viewerVars,
                   t_fs, bands, t_sample, t_freq, t_gain, gain_str, q_str,
                   accepted>>

\* ENTER is pressed, the device records `sample`, the frequency is detected.
Record(sample) ==
    /\ t_pc = "record"
    /\ Len(sample) = DEFAULT_DURATION * t_fs
    /\ t_sample' = sample
    /\ t_freq' = dominant_freq(sample, t_fs)
    /\ t_pc' = after_detect(dominant_freq(sample, t_fs))
    /\ UNCHANGED <<designVars, engineVars, viewerVars,
                   t_fs, bands, t_name, t_gain, gain_str, q_str, accepted,
                   saved, exit_code>>

\* The gain prompt is answered.
EnterGain(line) ==
    /\ t_pc = "gain_prompt"
    /\ gain_str' = strip(line)
    /\ t_gain' = entry_or_default(line, 6 * ONE)
    /\ t_pc' = "q_prompt"
    /\ UNCHANGED <<designVars, engineVars, viewerVars,
                   t_fs, bands, t_name, t_sample, t_freq, q_str, accepted,
                   saved, exit_code>>

\* The Q prompt is answered and the band is appended.
EnterQ(line) ==
    /\ t_pc = "q_prompt"
    /\ q_str' = strip(line)
    /\ LET band == [name |-> t_name, freq |-> t_freq[1], gain_db |-> t_gain,
                    Q |-> entry_or_default(line, 4 * ONE)]
       IN  /\ bands' = Append(bands, band)
           /\ accepted' = Append(accepted, band)
    /\ t_pc' = "name_prompt"
    /\ UNCHANGED <<designVars, engineVars, viewerVars,
                   t_fs, t_name, t_sample, t_freq, t_gain, gain_str, saved,
                   exit_code>>

NextTuner ==
    \/ \E line \in NameLines : EnterName(line)
    \/ \E sample \in Recordings : Record(sample)
    \/ \E line \in EntryLines : EnterGain(line)
    \/ \E line \in EntryLines : EnterQ(line)

SpecTuner == InitTuner /\ [][NextTuner]_vars

---------------------------------------------------------------------------
(* Claims about the engine                                                 *)

\* What counts as equal up to floating-point rounding: 2^-14 of full scale,
\* a thousand units of the model's arithmetic.
FloatTolerance == 2^10

Close(x, y) ==
    /\ Len(x) = Len(y)
    /\ \A n \in 1..Len(x) : Abs(x[n] - y[n]) <= FloatTolerance

\* _process on block b1 and then on block b2, from filter states zs: the two
\* returned blocks, concatenated.
process_split(chain, zs, b1, b2) ==
    LET r1 == process(chain, zs, b1)
        r2 == process(chain, r1.zi, b2)
    IN  r1.out \o r2.out

\* C2: process is state-continuous: from the state a call started in, the
\* block processed as two consecutive sub-blocks gives, concatenated, the
\* output the call gave for the whole block.
C2_StateContinuous ==
    cb.ended = "returned" =>
        \A k \in 1..(Len(cb.indata) - 1) :
            Close(process_split(sos_chain, cb.zi0,
                                SubSeq(cb.indata, 1, k),
                                SubSeq(cb.indata, k + 1, Len(cb.indata))),
                  cb.outdata)

IsZeroBlock(x) == \A n \in 1..Len(x) : x[n] = 0

\* C3: on a freshly constructed engine for sample rate 44100 with the one
\* extra band {freq 1000, gain_db 6, Q 2}, processing an all-zero block (of
\* FrameSize samples here) returns an all-zero block.
C3_SilenceInSilenceOut ==
    ( /\ calls = 1
      /\ cb.ended = "returned"
      /\ samplerate = 44100
      /\ Len(sos_chain) = 6
      /\ sos_chain[6] = peaking_sos(1000, 6, 2, 44100)
      /\ IsZeroBlock(cb.indata) )
    => IsZeroBlock(cb.outdata)

Filtered == apply_stages(sos_chain, cb.zi0, cb.indata, 0, Len(sos_chain)).x

\* The sum of squares of x, followed one unit past n * threshold ** 2.
SumSq(x) == sum_sq(x, 1, 0, Len(x) * GATE_THRESHOLD_SQ + 1)

\* C12: process returns an all-zero block when the RMS of the filtered block
\* is below 10^(-45/20) and the filtered block itself when the RMS is
\* strictly above it; the decision depends on this block alone.
C12_GatePerBlock ==
    cb.ended = "returned" =>
        /\ SumSq(Filtered) < Len(Filtered) * GATE_THRESHOLD_SQ
              => IsZeroBlock(cb.outdata)
        /\ SumSq(Filtered) > Len(Filtered) * GATE_THRESHOLD_SQ
              => cb.outdata = Filtered

\* The second block of a run passes the gate after the first, not all zero
\* before the gate, was zeroed by it: pushed holds the first block's output.
C12_Witness ==
    /\ calls = 2
    /\ cb.ended = "returned"
    /\ SumSq(Filtered) > Len(Filtered) * GATE_THRESHOLD_SQ
    /\ cb.outdata = Filtered
    /\ Len(pushed) = 2
    /\ IsZeroBlock(pushed[1][2])
    /\ ~IsZeroBlock(pushed[1][1])

\* C13: every invocation of the callback in which _process returns writes
\* the processed block of its own input to outdata before it returns, with
\* or without a monitor and also when the monitor's add_data raises; one
\* invocation is one captured block, and the filter states it leaves are
\* those the next invocation starts from.
C13_OutputFilled ==
    (cb.ended # "never" /\ cb.fault # "process") =>
        /\ cb.ended = "returned"
        /\ cb.filled
        /\ cb.outdata = process(sos_chain, cb.zi0, cb.indata).out
        /\ Len(cb.outdata) = Len(cb.indata)
        /\ zi = process(sos_chain, cb.zi0, cb.indata).zi
        /\ stream = "active"

\* The second block of a run, with a monitor whose add_data raised.
C13_Witness ==
    /\ calls = 2
    /\ monitor
    /\ cb.ended = "returned"
    /\ cb.fault = "monitor"
    /\ cb.filled
    /\ cb.outdata # <<>>

\* C14: the loop of run() ends when the user interrupts or the device
\* fails, the stream is not reopened, and the stream is released on every
\* way out of run(), in the main thread and in the GUI's background
\* thread: once main() has exited, a stream that was opened has been
\* released by run(); and run() is never left waiting, with nothing queued,
\* on a stream that no longer runs.
C14_StopsAndReleases ==
    /\ main_pc = "exited" => stream \in {"closed", "released"}
    /\ (run_pc = "loop" /\ stream # "active") => q > 0

\* What C16 describes, stage k (1-indexed) onwards: every section once, in
\* chain order, except the section at index 2 (0-indexed), which is applied
\* to its incoming block twice, the second time from the state the first
\* left, and passes on second + 2.0 * first; each section keeps the state
\* its last application left.
RECURSIVE InChainOrder(_, _, _, _)
InChainOrder(chain, zs, x, k) ==
    IF k > Len(chain)
    THEN [x |-> x, zi |-> zs]
    ELSE IF k - 1 = 2
    THEN LET first == sosfilt(chain[k], x, zs[k])
             second == sosfilt(chain[k], x, first.zf)
         IN  InChainOrder(chain, [zs EXCEPT ![k] = second.zf],
                          [n \in 1..Len(x) |-> second.y[n] + 2 * first.y[n]],
                          k + 1)
    ELSE LET once == sosfilt(chain[k], x, zs[k])
         IN  InChainOrder(chain, [zs EXCEPT ![k] = once.zf], once.y, k + 1)

\* C16: in each process call the sections are applied in chain order, the
\* bass-boost section twice to the same incoming signal with the second
\* application starting from the state the first left and second + 2.0 *
\* first passed on, every other section once; the stored states after the
\* call are those of each section's last application.
C16_StagesInOrder ==
    cb.ended = "returned" =>
        /\ zi = InChainOrder(sos_chain, cb.zi0, cb.indata, 1).zi
        /\ \/ cb.outdata = InChainOrder(sos_chain, cb.zi0, cb.indata, 1).x
           \/ IsZeroBlock(cb.outdata)

\* The second block of a run through a chain with an extra band, not gated.
C16_Witness ==
    /\ calls = 2
    /\ cb.ended = "returned"
    /\ Len(sos_chain) = 6
    /\ ~IsZeroBlock(cb.indata)
    /\ ~IsZeroBlock(cb.outdata)
    /\ cb.outdata = InChainOrder(sos_chain, cb.zi0, cb.indata, 1).x
    /\ zi[3] # sosfilt(sos_chain[3],
                       InChainOrder(SubSeq(sos_chain, 1, 2), cb.zi0,
                                    cb.indata, 1).x,
                       cb.zi0[3]).zf

---------------------------------------------------------------------------
(* Claims about the observation buffers                                    *)

RECURSIVE total_samples(_)
total_samples(buf) ==
    IF buf = <<>> THEN 0 ELSE Len(Head(buf)) + total_samples(Tail(buf))

\* The last n entries of seq (all of it when it has fewer).
LastN(seq, n) ==
    SubSeq(seq, (IF Len(seq) > n THEN Len(seq) - n ELSE 0) + 1, Len(seq))

\* The pre (c = 1) or post (c = 2) blocks of the first n completed pushes.
PushedBlocks(c, n) == [i \in 1..n |-> pushed[i][c]]

\* C4: after any sequence of pushes each of the two buffers holds at most
\* buffer_seconds * sample_rate samples in total.
C4_SampleCapacity ==
    /\ total_samples(pre_buf) <= BUFFER_SECONDS * sr
    /\ total_samples(post_buf) <= BUFFER_SECONDS * sr

\* C5: the buffers always hold the most recently pushed blocks, oldest
\* first, and every snapshot is, per channel, the concatenation in push
\* order of the blocks that were buffered when it was taken.
C5_NewestBlocksInOrder ==
    /\ pre_buf = LastN(PushedBlocks(1, Len(pushed)), nbuf)
    /\ post_buf = LastN(PushedBlocks(2, Len(pushed)), nbuf)
    /\ \A i \in 1..Len(snaps) :
          /\ snaps[i].pre =
                concatenate(LastN(PushedBlocks(1, snaps[i].pushes), nbuf))
          /\ snaps[i].post =
                concatenate(LastN(PushedBlocks(2, snaps[i].pushes), nbuf))

\* A snapshot taken after the oldest block was evicted.
C5_Witness ==
    \E i \in 1..Len(snaps) :
        /\ snaps[i].pushes > nbuf
        /\ Len(snaps[i].pre_blocks) = nbuf
        /\ snaps[i].pre_blocks[1] # pushed[1][1]

\* C6: a snapshot consumes nothing: with no push since, the buffers hold
\* exactly the blocks the snapshot read, and two snapshots with no push in
\* between return the same sequences; a buffer loses a block only to a push
\* beyond its capacity.
C6_SnapshotDoesNotConsume ==
    /\ \A i \in 1..Len(snaps) :
          snaps[i].pushes = Len(pushed) =>
              /\ pre_buf = snaps[i].pre_blocks
              /\ post_buf = snaps[i].post_blocks
    /\ \A i, j \in 1..Len(snaps) :
          snaps[i].pushes = snaps[j].pushes =>
              /\ snaps[i].pre = snaps[j].pre
              /\ snaps[i].post = snaps[j].post
    /\ Len(pre_buf) = (IF Len(pushed) > nbuf THEN nbuf ELSE Len(pushed))
    /\ Len(post_buf) = (IF Len(pushed) > nbuf THEN nbuf ELSE Len(pushed))

\* Two snapshots of non-empty buffers with no push in between or since.
C6_Witness ==
    /\ Len(snaps) = 2
    /\ snaps[1].pushes = snaps[2].pushes
    /\ snaps[2].pushes = Len(pushed)
    /\ snaps[1].pre # <<>>
    /\ pre_buf # <<>>

\* C17: the audio thread and the GUI thread are never inside the critical
\* section together, the GUI thread holds the lock only while it copies the
\* buffers and renders after releasing it, and every add_data that has
\* started completes, however long the rendering takes.
C17_PushCompletes ==
    /\ [](/\ p_pc \in {"pre", "post"} => lock = "producer"
          /\ c_pc \in {"pre", "post"} => lock = "consumer"
          /\ c_pc \in {"idle", "wait", "render"} => lock # "consumer"
          /\ p_pc \in {"idle", "wait"} => lock # "producer")
    /\ (p_pc = "wait") ~> (p_pc = "idle")

\* An add_data waits while _animate holds the lock, after a push and a
\* snapshot have completed before.
C17_Witness ==
    /\ p_pc = "wait"
    /\ lock = "consumer"
    /\ c_pc = "post"
    /\ Len(pushed) >= 1
    /\ Len(snaps) >= 1

\* C18: under every interleaving of add_data and _animate each snapshot
\* holds as many pre blocks as post blocks, its i-th pre block and its i-th
\* post block are the two blocks of one add_data, and it holds the blocks
\* of completed pushes only, the most recent ones in order.
C18_SnapshotsPaired ==
    \A i \in 1..Len(snaps) :
        /\ Len(snaps[i].pre_blocks) = Len(snaps[i].post_blocks)
        /\ \A j \in 1..Len(snaps[i].pre_blocks) :
              << snaps[i].pre_blocks[j], snaps[i].post_blocks[j] >>
                  \in ViewerPushes
        /\ snaps[i].pre_blocks = LastN(PushedBlocks(1, snaps[i].pushes), nbuf)
        /\ snaps[i].post_blocks = LastN(PushedBlocks(2, snaps[i].pushes), nbuf)

\* A snapshot of a full buffer was taken while an add_data was waiting for
\* the lock, and that add_data has gone on to its first append.
C18_Witness ==
    /\ Len(snaps) >= 1
    /\ Len(snaps[Len(snaps)].pre_blocks) = nbuf
    /\ snaps[Len(snaps)].pushes = Len(pushed)
    /\ c_pc = "render"
    /\ p_pc = "post"
    /\ Len(pre_buf) = nbuf
    /\ pre_buf # snaps[Len(snaps)].pre_blocks

---------------------------------------------------------------------------
(* Claims about the tuner                                                  *)

\* C7: when the session finishes, with no band accepted it exits with a
\* non-zero code and the preset writer is never called; otherwise the
\* writer is called exactly once, with the accepted bands in the order of
\* acceptance.  Before the session finishes the writer is not called.
C7_FinishWritesOnceOrFails ==
    /\ t_pc = "exited" =>
          /\ accepted = <<>>
          /\ exit_code # <<>> /\ exit_code[1] # 0
          /\ saved = <<>>
    /\ t_pc = "returned" =>
          /\ accepted # <<>>
          /\ saved = << accepted >>
          /\ exit_code = <<>>
    /\ t_pc \notin {"exited", "returned"} =>
          /\ saved = <<>>
          /\ exit_code = <<>>

\* A session that finished after accepting two different bands.
C7_Witness ==
    /\ t_pc = "returned"
    /\ Len(accepted) = 2
    /\ accepted[1] # accepted[2]

\* C10: when detection returns None for a recording, the band list stays as
\* it was, no gain or Q prompt follows, and the session is back at the name
\* prompt, neither ended nor failed.
C10_QuietSampleSkipped ==
    [][ (t_pc = "record" /\ t_sample' # <<>>
            /\ dominant_freq(t_sample', t_fs) = <<>>)
        => /\ t_pc' = "name_prompt"
           /\ bands' = bands
           /\ accepted' = accepted
           /\ saved' = saved
           /\ exit_code' = exit_code ]_vars

\* Back at the name prompt after a recording below the floor, with a band
\* accepted before it.
C10_Witness ==
    /\ t_pc = "name_prompt"
    /\ t_sample # <<>>
    /\ \E n \in 1..Len(t_sample) : t_sample[n] # 0
    /\ dominant_freq(t_sample, t_fs) = <<>>
    /\ Len(bands) = 1

\* An entry that is not a number: text without a single digit.
NonNumeric(entry) == \A k \in 1..Len(entry) : entry[k] \notin DigitChars

\* C11: for an accepted detection an empty or non-numeric gain entry gives
\* gain_db = 6.0 and an empty or non-numeric Q entry gives Q = 4.0, the band
\* {name, detected freq, gain_db, Q} is the one band appended, and the
\* session is neither ended nor failed by the entry.  (gain_str and q_str
\* are those of the last band appended except between the two prompts.)
C11_EntryDefaults ==
    (t_pc # "q_prompt" /\ bands # <<>>) =>
        /\ NonNumeric(gain_str) => bands[Len(bands)].gain_db = 6 * ONE
        /\ NonNumeric(q_str) => bands[Len(bands)].Q = 4 * ONE
        /\ t_pc = "name_prompt" =>
              /\ bands[Len(bands)].name = t_name
              /\ t_freq # <<>> => bands[Len(bands)].freq = t_freq[1]
        /\ bands = accepted
        /\ exit_code = <<>>

\* C15: every band the session accumulates, and every band handed to
\* save_preset, has freq > 0 and Q > 0.
C15_BandSpecInvariants ==
    /\ \A i \in 1..Len(bands) : bands[i].freq > 0 /\ bands[i].Q > 0
    /\ \A k \in 1..Len(saved) : \A i \in 1..Len(saved[k]) :
          saved[k][i].freq > 0 /\ saved[k][i].Q > 0

---------------------------------------------------------------------------
(* Claims about design_eq                                                  *)

\* C1: for a sample rate whose Nyquist frequency lies above the built-in
\* 9 kHz low-pass, design_eq returns, and whenever it returns the chain has
\* 5 + n entries (n the number of extra bands), in construction order: high-pass 80 Hz, notch 60 Hz,
\* low-pass 120 Hz, presence peak 3 kHz, low-pass 9 kHz, then one peaking
\* filter per extra band in list order; and the engine's bass_idx is 2 and
\* names the 120 Hz low-pass.
C1_ChainLayout ==
    /\ (d_out.status # "idle" /\ d_fs > 2 * 9000) => d_out.status = "returned"
    /\ d_out.status = "returned" =>
        /\ Len(d_out.chain) = 5 + Len(d_bands)
        /\ d_out.chain[1] = butter(2, 80, "high", d_fs)
        /\ d_out.chain[2] = iirnotch(60, 30, d_fs)
        /\ bass_idx = 2
        /\ d_out.chain[bass_idx + 1] = butter(2, 120, "low", d_fs)
        /\ d_out.chain[4] = peaking_sos(3000, 3, 1, d_fs)
        /\ d_out.chain[5] = butter(4, 9000, "low", d_fs)
        /\ \A i \in 1..Len(d_bands) :
              d_out.chain[5 + i] =
                  peaking_sos(d_bands[i]["freq"],
                              band_get(d_bands[i], "gain_db", 6),
                              band_get(d_bands[i], "Q", 4),
                              d_fs)

\* A call that returned a chain for two different extra bands.
C1_Witness ==
    /\ d_out.status = "returned"
    /\ Len(d_bands) = 2
    /\ d_bands[1] # d_bands[2]
    /\ Len(d_out.chain) = 7

\* The parameters the spec calls invalid: a non-positive sample rate, a band
\* frequency that is not inside (0, fs/2), a non-positive Q.
InvalidParameter(fs, extra_bands) ==
    \/ fs <= 0
    \/ \E i \in 1..Len(extra_bands) :
          \/ extra_bands[i]["freq"] <= 0
          \/ 2 * extra_bands[i]["freq"] >= fs
          \/ band_get(extra_bands[i], "Q", 4) <= 0

===========================================================================
